---------------------------- MODULE Spec2Model ----------------------------
(***************************************************************************)
(* GPT validation and repair core (firmware/lib/cgptlib/cgptlib_internal.c) *)
(* of seismograph, as a state machine over one GptData working set.        *)
(*                                                                         *)
(* A header buffer is a record of the GptHeader fields plus `padding`, the *)
(* rest of the 512-byte sector (modelled as one value, thought of as the   *)
(* sector's last byte).  An entries buffer is a sequence of NumSlots       *)
(* entries; the remaining slots of the 128-entry buffer are all-zero       *)
(* (unused) in every modelled image.  LBAs, sizes and counts are the       *)
(* program's own numbers; every modelled drive has at least 34 sectors,    *)
(* so no uint64 subtraction of the code wraps.                             *)
(***************************************************************************)
EXTENDS Integers, Sequences, FiniteSets, TLC

VARIABLES gpt,   \* the GptData working set
          pre,   \* the GptData as it was when the last core call was entered
          hist   \* the steps taken so far: records [op, ret], oldest first

vars == <<gpt, pre, hist>>

---------------------------------------------------------------------------
(* Bounds of the model *)

\* entries modelled explicitly at the head of each 128-entry buffer
NumSlots == 2
\* caller steps (image faults, edits, resize, mask writes) in one behaviour
MaxEdits == 2
\* core calls in one behaviour
MaxCalls == 2

---------------------------------------------------------------------------
(* Program constants (gpt.h, cgptlib_internal.h, cgptlib.h) *)

GPT_ENTRIES_SECTORS == 32
MIN_SIZE_OF_HEADER == 92
MAX_SIZE_OF_HEADER == 512
MIN_NUMBER_OF_ENTRIES == 128
MAX_NUMBER_OF_ENTRIES == 128
TOTAL_ENTRIES_SIZE == 16384
GPT_HEADER_REVISION == 65536
\* sizeof(GptEntry) and sizeof(GptHeader)
SIZEOF_GptEntry == 128
SIZEOF_GptHeader == 92

GPT_HEADER_SIGNATURE == "EFI PART"
GPT_HEADER_SIGNATURE2 == "CHROMEOS"

MASK_NONE == 0
MASK_PRIMARY == 1
MASK_SECONDARY == 2
MASK_BOTH == 3

GPT_MODIFIED_HEADER1 == 1
GPT_MODIFIED_HEADER2 == 2
GPT_MODIFIED_ENTRIES1 == 4
GPT_MODIFIED_ENTRIES2 == 8

GPT_SUCCESS == "GPT_SUCCESS"
GPT_ERROR_INVALID_HEADERS == "GPT_ERROR_INVALID_HEADERS"
GPT_ERROR_INVALID_ENTRIES == "GPT_ERROR_INVALID_ENTRIES"
GPT_ERROR_INVALID_SECTOR_SIZE == "GPT_ERROR_INVALID_SECTOR_SIZE"
GPT_ERROR_INVALID_SECTOR_NUMBER == "GPT_ERROR_INVALID_SECTOR_NUMBER"
GPT_ERROR_CRC_CORRUPTED == "GPT_ERROR_CRC_CORRUPTED"
GPT_ERROR_OUT_OF_REGION == "GPT_ERROR_OUT_OF_REGION"
GPT_ERROR_START_LBA_OVERLAP == "GPT_ERROR_START_LBA_OVERLAP"
GPT_ERROR_END_LBA_OVERLAP == "GPT_ERROR_END_LBA_OVERLAP"
GPT_ERROR_DUP_GUID == "GPT_ERROR_DUP_GUID"

---------------------------------------------------------------------------
(* Bit operations on the small unsigned masks *)

RECURSIVE BitAnd(_, _)
BitAnd(a, b) ==
    IF a = 0 \/ b = 0 THEN 0
    ELSE (a % 2) * (b % 2) + 2 * BitAnd(a \div 2, b \div 2)

\* a | b
BitOr(a, b) == a + b - BitAnd(a, b)

\* a & ~b
BitClear(a, b) == a - BitAnd(a, b)

---------------------------------------------------------------------------
(* CRC32 (crc32.c).  The checksum is a function of the bytes covered and   *)
(* of how many there are; it is computed here as a polynomial hash of the  *)
(* covered field values, seeded with the byte count.                       *)

CrcModulus == 2^24

RECURSIVE CrcFold(_, _, _)
CrcFold(acc, data, i) ==
    IF i > Len(data) THEN acc
    ELSE CrcFold((acc * 31 + data[i] + 1) % CrcModulus, data, i + 1)

Crc32(data, len) == CrcFold((len + 7) % CrcModulus, data, 1)

SignatureBytes(s) ==
    CASE s = GPT_HEADER_SIGNATURE -> 11
      [] s = GPT_HEADER_SIGNATURE2 -> 12
      [] OTHER -> 13

\* The first n bytes of a header buffer, header_crc32 included.
HeaderBytes(h, n) ==
    << SignatureBytes(h.signature), h.revision, h.size, h.header_crc32,
       h.reserved_zero, h.my_lba, h.alternate_lba, h.first_usable_lba,
       h.last_usable_lba, h.disk_uuid, h.entries_lba, h.number_of_entries,
       h.size_of_entry >>
    \o (IF n >= SIZEOF_GptHeader THEN << h.entries_crc32 >> ELSE << >>)
    \o (IF n >= MAX_SIZE_OF_HEADER THEN << h.padding >> ELSE << >>)

EntryBytes(e) ==
    << e.type, e.unique, e.starting_lba, e.ending_lba, e.attrs_low, e.gpt_att >>

\* The first n bytes of an entries buffer: the whole entries among them.
RECURSIVE EntriesBytes(_, _, _)
EntriesBytes(entries, n, k) ==
    IF k > Len(entries) \/ k * SIZEOF_GptEntry > n THEN << >>
    ELSE EntryBytes(entries[k]) \o EntriesBytes(entries, n, k + 1)

EntriesCrc(entries, h) ==
    Crc32(EntriesBytes(entries, h.size_of_entry * h.number_of_entries, 1),
          h.size_of_entry * h.number_of_entries)

---------------------------------------------------------------------------
(* The validators *)

CheckParameters(g) ==
    IF g.sector_bytes # 512 THEN GPT_ERROR_INVALID_SECTOR_SIZE
    ELSE IF g.drive_sectors < 1 + 2 * (1 + GPT_ENTRIES_SECTORS)
         THEN GPT_ERROR_INVALID_SECTOR_NUMBER
    ELSE GPT_SUCCESS

\* HeaderCrc without line 40: the CRC field is left zeroed.
HeaderCrcLeaveZeroed(zeroed, original_crc32) == zeroed

\* The header buffer when HeaderCrc returns: the CRC field, zeroed for the
\* computation, holds the original value again.
HeaderCrcRestore(zeroed, original_crc32) ==
    [zeroed EXCEPT !.header_crc32 = original_crc32]

\* Lines 38-42 of HeaderCrc, on the buffer with its CRC field zeroed.
HeaderCrcOfZeroed(zeroed, original_crc32) ==
    [ crc32 |-> Crc32(HeaderBytes(zeroed, zeroed.size), zeroed.size),
      h     |-> HeaderCrcRestore(zeroed, original_crc32) ]

\* HeaderCrc: the value returned and the buffer it leaves.
HeaderCrc(h) ==
    HeaderCrcOfZeroed([h EXCEPT !.header_crc32 = 0], h.header_crc32)

\* CheckHeader without the upper limit of line 109 on last_usable_lba.
CheckHeaderFieldsNoUpperLimit(c, is_secondary, drive_sectors) ==
    IF c.crc32 # c.h.header_crc32 THEN 1
    ELSE IF c.h.reserved_zero # 0 THEN 1
    ELSE IF c.h.size_of_entry # SIZEOF_GptEntry THEN 1
    ELSE IF \/ c.h.number_of_entries < MIN_NUMBER_OF_ENTRIES
            \/ c.h.number_of_entries > MAX_NUMBER_OF_ENTRIES
            \/ c.h.number_of_entries * c.h.size_of_entry # TOTAL_ENTRIES_SIZE
         THEN 1
    ELSE IF /\ is_secondary # 0
            /\ \/ c.h.my_lba # drive_sectors - 1
               \/ c.h.entries_lba # c.h.my_lba - GPT_ENTRIES_SECTORS
         THEN 1
    ELSE IF /\ is_secondary = 0
            /\ \/ c.h.my_lba # 1
               \/ c.h.entries_lba # c.h.my_lba + 1
         THEN 1
    ELSE IF c.h.first_usable_lba < 2 + GPT_ENTRIES_SECTORS THEN 1
    ELSE IF c.h.first_usable_lba > c.h.last_usable_lba THEN 1
    ELSE 0

\* Lines 65-115 of CheckHeader: c is what HeaderCrc(h) gave.
CheckHeaderFields(c, is_secondary, drive_sectors) ==
    IF c.crc32 # c.h.header_crc32 THEN 1
    ELSE IF c.h.reserved_zero # 0 THEN 1
    ELSE IF c.h.size_of_entry # SIZEOF_GptEntry THEN 1
    ELSE IF \/ c.h.number_of_entries < MIN_NUMBER_OF_ENTRIES
            \/ c.h.number_of_entries > MAX_NUMBER_OF_ENTRIES
            \/ c.h.number_of_entries * c.h.size_of_entry # TOTAL_ENTRIES_SIZE
         THEN 1
    ELSE IF /\ is_secondary # 0
            /\ \/ c.h.my_lba # drive_sectors - 1
               \/ c.h.entries_lba # c.h.my_lba - GPT_ENTRIES_SECTORS
         THEN 1
    ELSE IF /\ is_secondary = 0
            /\ \/ c.h.my_lba # 1
               \/ c.h.entries_lba # c.h.my_lba + 1
         THEN 1
    ELSE IF c.h.first_usable_lba < 2 + GPT_ENTRIES_SECTORS THEN 1
    ELSE IF c.h.last_usable_lba >= drive_sectors - 1 - GPT_ENTRIES_SECTORS
         THEN 1
    ELSE IF c.h.first_usable_lba > c.h.last_usable_lba THEN 1
    ELSE 0

\* The buffer CheckHeader leaves with its verdict ret.
CheckHeaderResult(ret, h) == [ret |-> ret, h |-> h]

\* Lines 65-115 of CheckHeader, with the buffer HeaderCrc left.
CheckHeaderAfterCrc(c, is_secondary, drive_sectors) ==
    CheckHeaderResult(CheckHeaderFields(c, is_secondary, drive_sectors), c.h)

\* CheckHeader: 0 (valid) or 1, and the buffer it leaves.
CheckHeader(h, is_secondary, drive_sectors) ==
    IF /\ h.signature # GPT_HEADER_SIGNATURE
       /\ h.signature # GPT_HEADER_SIGNATURE2
    THEN CheckHeaderResult(1, h)
    ELSE IF h.revision # GPT_HEADER_REVISION THEN CheckHeaderResult(1, h)
    ELSE IF h.size < MIN_SIZE_OF_HEADER \/ h.size > MAX_SIZE_OF_HEADER
         THEN CheckHeaderResult(1, h)
    ELSE CheckHeaderAfterCrc(HeaderCrc(h), is_secondary, drive_sectors)

IsUnusedEntry(e) == e.type = 0

\* The slots the loops of CheckEntries visit that can hold a used entry.
EntryCount(entries, h) ==
    IF h.number_of_entries < Len(entries) THEN h.number_of_entries
    ELSE Len(entries)

\* The inner loop of CheckEntries without the test of lines 165-167 on the
\* entry's ending_lba.
RECURSIVE CheckOverlapStartOnly(_, _, _, _)
CheckOverlapStartOnly(entries, h, i, i2) ==
    IF i2 > EntryCount(entries, h) THEN GPT_SUCCESS
    ELSE IF i2 = i \/ IsUnusedEntry(entries[i2])
         THEN CheckOverlapStartOnly(entries, h, i, i2 + 1)
    ELSE IF /\ entries[i].starting_lba >= entries[i2].starting_lba
            /\ entries[i].starting_lba <= entries[i2].ending_lba
         THEN GPT_ERROR_START_LBA_OVERLAP
    ELSE IF entries[i].unique = entries[i2].unique
         THEN GPT_ERROR_DUP_GUID
    ELSE CheckOverlapStartOnly(entries, h, i, i2 + 1)

\* The inner loop of CheckEntries for entry i, from i2 on.
RECURSIVE CheckOverlap(_, _, _, _)
CheckOverlap(entries, h, i, i2) ==
    IF i2 > EntryCount(entries, h) THEN GPT_SUCCESS
    ELSE IF i2 = i \/ IsUnusedEntry(entries[i2])
         THEN CheckOverlap(entries, h, i, i2 + 1)
    ELSE IF /\ entries[i].starting_lba >= entries[i2].starting_lba
            /\ entries[i].starting_lba <= entries[i2].ending_lba
         THEN GPT_ERROR_START_LBA_OVERLAP
    ELSE IF /\ entries[i].ending_lba >= entries[i2].starting_lba
            /\ entries[i].ending_lba <= entries[i2].ending_lba
         THEN GPT_ERROR_END_LBA_OVERLAP
    ELSE IF entries[i].unique = entries[i2].unique
         THEN GPT_ERROR_DUP_GUID
    ELSE CheckOverlap(entries, h, i, i2 + 1)

\* The outer loop of CheckEntries comparing each entry with the later
\* entries only (i2 starting at i + 1 in line 157).
RECURSIVE CheckEntryForward(_, _, _)
CheckEntryForward(entries, h, i) ==
    IF i > EntryCount(entries, h) THEN GPT_SUCCESS
    ELSE IF IsUnusedEntry(entries[i])
         THEN CheckEntryForward(entries, h, i + 1)
    ELSE IF \/ entries[i].starting_lba < h.first_usable_lba
            \/ entries[i].ending_lba > h.last_usable_lba
            \/ entries[i].ending_lba < entries[i].starting_lba
         THEN GPT_ERROR_OUT_OF_REGION
    ELSE IF CheckOverlap(entries, h, i, i + 1) # GPT_SUCCESS
         THEN CheckOverlap(entries, h, i, i + 1)
    ELSE CheckEntryForward(entries, h, i + 1)

\* The outer loop of CheckEntries, from entry i on.
RECURSIVE CheckEntry(_, _, _)
CheckEntry(entries, h, i) ==
    IF i > EntryCount(entries, h) THEN GPT_SUCCESS
    ELSE IF IsUnusedEntry(entries[i]) THEN CheckEntry(entries, h, i + 1)
    ELSE IF \/ entries[i].starting_lba < h.first_usable_lba
            \/ entries[i].ending_lba > h.last_usable_lba
            \/ entries[i].ending_lba < entries[i].starting_lba
         THEN GPT_ERROR_OUT_OF_REGION
    ELSE IF CheckOverlap(entries, h, i, 1) # GPT_SUCCESS
         THEN CheckOverlap(entries, h, i, 1)
    ELSE CheckEntry(entries, h, i + 1)

CheckEntries(entries, h) ==
    IF EntriesCrc(entries, h) # h.entries_crc32 THEN GPT_ERROR_CRC_CORRUPTED
    ELSE CheckEntry(entries, h, 1)

HeaderFieldsSame(h1, h2) ==
    IF \/ h1.signature # h2.signature
       \/ h1.revision # h2.revision
       \/ h1.size # h2.size
       \/ h1.reserved_zero # h2.reserved_zero
       \/ h1.first_usable_lba # h2.first_usable_lba
       \/ h1.last_usable_lba # h2.last_usable_lba
       \/ h1.disk_uuid # h2.disk_uuid
       \/ h1.number_of_entries # h2.number_of_entries
       \/ h1.size_of_entry # h2.size_of_entry
       \/ h1.entries_crc32 # h2.entries_crc32
    THEN 1 ELSE 0

---------------------------------------------------------------------------
(* The sanity-check orchestrator *)

\* Lines 243-246: both tables against goodhdr.
EntriesMask(g, goodhdr) ==
    BitOr(IF CheckEntries(g.primary_entries, goodhdr) = GPT_SUCCESS
          THEN MASK_PRIMARY ELSE 0,
          IF CheckEntries(g.secondary_entries, goodhdr) = GPT_SUCCESS
          THEN MASK_SECONDARY ELSE 0)

\* Lines 257-265 without line 263: PRIMARY stays in valid_headers.
CrossRetryKeepsPrimary(g, ve) ==
    IF ve # 0 THEN [g EXCEPT !.valid_entries = ve] ELSE g

\* Lines 257-265: ve is what the retry with the secondary header found.
CrossRetryResult(g, ve) ==
    IF ve # 0
    THEN [g EXCEPT !.valid_entries = ve,
                   !.valid_headers = BitClear(@, MASK_PRIMARY)]
    ELSE g

\* Lines 252-266: the retry with the secondary header.
CrossRetry(g) ==
    IF MASK_BOTH = g.valid_headers /\ g.valid_entries = 0
    THEN CrossRetryResult(g, EntriesMask(g, g.secondary_header))
    ELSE g

\* Lines 275-277 clearing PRIMARY where the code clears SECONDARY.
CrossCheckClearsPrimary(g) ==
    IF /\ MASK_BOTH = g.valid_headers
       /\ HeaderFieldsSame(g.primary_header, g.secondary_header) # 0
    THEN [g EXCEPT !.valid_headers = BitClear(@, MASK_PRIMARY)]
    ELSE g

\* Lines 275-277 left out: differing headers both stay valid.
CrossCheckSkipped(g) == g

\* Lines 275-277: the headers must otherwise be identical.
CrossCheckHeaders(g) ==
    IF /\ MASK_BOTH = g.valid_headers
       /\ HeaderFieldsSame(g.primary_header, g.secondary_header) # 0
    THEN [g EXCEPT !.valid_headers = BitClear(@, MASK_SECONDARY)]
    ELSE g

SanityResult(ret, g) == [ret |-> ret, gpt |-> g]

\* Lines 268-279.
SanityCheckFinish(g) ==
    IF g.valid_entries = 0 THEN SanityResult(GPT_ERROR_INVALID_ENTRIES, g)
    ELSE SanityResult(GPT_SUCCESS, CrossCheckHeaders(g))

\* goodhdr: the primary header when it is valid, else the secondary.
GoodHdr(g) ==
    IF BitAnd(g.valid_headers, MASK_PRIMARY) # 0 THEN g.primary_header
    ELSE g.secondary_header

\* Lines 233-279: g holds the verdicts on the headers.
SanityCheckEntries(g) ==
    IF g.valid_headers = 0 THEN SanityResult(GPT_ERROR_INVALID_HEADERS, g)
    ELSE SanityCheckFinish(
             CrossRetry([g EXCEPT !.valid_entries =
                                      EntriesMask(g, GoodHdr(g))]))

\* Lines 223-231: c1 and c2 are what CheckHeader gave for the two headers.
SanityCheckHeaders(g, c1, c2) ==
    [g EXCEPT !.primary_header = c1.h,
              !.secondary_header = c2.h,
              !.valid_headers =
                  BitOr(IF c1.ret = 0 THEN MASK_PRIMARY ELSE 0,
                        IF c2.ret = 0 THEN MASK_SECONDARY ELSE 0)]

\* Lines 218-279: g has its masks cleared.
SanityCheckCleared(g) ==
    IF CheckParameters(g) # GPT_SUCCESS
    THEN SanityResult(CheckParameters(g), g)
    ELSE SanityCheckEntries(
             SanityCheckHeaders(g,
                 CheckHeader(g.primary_header, 0, g.drive_sectors),
                 CheckHeader(g.secondary_header, 1, g.drive_sectors)))

\* GptSanityCheck: the code returned and the GptData it leaves.
GptSanityCheck(g) ==
    SanityCheckCleared([g EXCEPT !.valid_headers = 0, !.valid_entries = 0])

---------------------------------------------------------------------------
(* The geometry adapter and the repair engine *)

\* Memcpy(dst, src, sizeof(GptHeader)): every field, not the sector's padding.
CopyHeader(dst, src) == [src EXCEPT !.padding = dst.padding]

\* Memcpy(dst, src, n) on entries buffers: the entries within the first n bytes.
CopyEntries(dst, src, n) ==
    [k \in 1..Len(dst) |-> IF k * SIZEOF_GptEntry <= n THEN src[k] ELSE dst[k]]

\* c is what HeaderCrc gave: the buffer it left, with the CRC stored.
StoreCrc(c) == [c.h EXCEPT !.header_crc32 = c.crc32]

\* header->header_crc32 = HeaderCrc(header)
SealHeader(h) == StoreCrc(HeaderCrc(h))

\* Line 328 left out: the rewritten header stays.
RestoreNothing(g, was_valid, backup) == g

\* Memcpy(header, &backup, sizeof(GptHeader)) on the header was_valid names.
RestoreBackup(g, was_valid, backup) ==
    IF was_valid = MASK_PRIMARY
    THEN [g EXCEPT !.primary_header = CopyHeader(@, backup)]
    ELSE [g EXCEPT !.secondary_header = CopyHeader(@, backup)]

\* Lines 333-336 without lines 335-336: HEADER1 is not flagged.
RecomputeModifiedSecondaryOnly(modified, was_valid) ==
    BitOr(modified, BitOr(GPT_MODIFIED_HEADER2, GPT_MODIFIED_ENTRIES2))

\* Lines 334-336 assigning the bits where the code ORs them in.
RecomputeModifiedAssign(modified, was_valid) ==
    BitOr(BitOr(GPT_MODIFIED_HEADER2, GPT_MODIFIED_ENTRIES2),
          IF was_valid = MASK_PRIMARY THEN GPT_MODIFIED_HEADER1 ELSE 0)

\* Lines 333-336.
RecomputeModified(modified, was_valid) ==
    BitOr(BitOr(modified, BitOr(GPT_MODIFIED_HEADER2, GPT_MODIFIED_ENTRIES2)),
          IF was_valid = MASK_PRIMARY THEN GPT_MODIFIED_HEADER1 ELSE 0)

RecomputeResult(ret, g) == [ret |-> ret, gpt |-> g]

\* Lines 326-338 without the GptSanityCheck of line 329: the masks stay
\* those found with the rewritten header.
RecomputeJudgeNoRecheck(s, was_valid, backup) ==
    IF s.ret # GPT_SUCCESS \/ s.gpt.valid_headers # was_valid
    THEN RecomputeResult(GPT_ERROR_INVALID_HEADERS,
             RestoreBackup(s.gpt, was_valid, backup))
    ELSE RecomputeResult(GPT_SUCCESS,
             [s.gpt EXCEPT !.modified = RecomputeModified(@, was_valid)])

\* Lines 326-338: s is what the GptSanityCheck of line 326 gave.
RecomputeJudge(s, was_valid, backup) ==
    IF s.ret # GPT_SUCCESS \/ s.gpt.valid_headers # was_valid
    THEN RecomputeResult(GPT_ERROR_INVALID_HEADERS,
             GptSanityCheck(RestoreBackup(s.gpt, was_valid, backup)).gpt)
    ELSE RecomputeResult(GPT_SUCCESS,
             [s.gpt EXCEPT !.modified = RecomputeModified(@, was_valid)])

\* Lines 324-338: after the rewrite of the header named by was_valid, whose
\* old contents are backup.
RecomputeFinish(g, was_valid, backup) ==
    RecomputeJudge(GptSanityCheck(g), was_valid, backup)

\* Lines 294-322, with the values of lines 288-290.
RecomputeWith(g, alt_lba, alt_entries_lba, last_usable_lba) ==
    IF BitAnd(MASK_PRIMARY, g.valid_headers) # 0
    THEN IF /\ g.primary_header.alternate_lba = alt_lba
            /\ g.primary_header.last_usable_lba = last_usable_lba
         THEN RecomputeResult(GPT_SUCCESS, g)
         ELSE RecomputeFinish(
                  [g EXCEPT !.primary_header =
                       SealHeader([@ EXCEPT
                           !.alternate_lba = alt_lba,
                           !.last_usable_lba = last_usable_lba])],
                  MASK_PRIMARY, g.primary_header)
    ELSE IF BitAnd(MASK_SECONDARY, g.valid_headers) # 0
    THEN IF /\ g.secondary_header.my_lba = alt_lba
            /\ g.secondary_header.entries_lba = alt_entries_lba
            /\ g.secondary_header.last_usable_lba = last_usable_lba
         THEN RecomputeResult(GPT_SUCCESS, g)
         ELSE RecomputeFinish(
                  [g EXCEPT !.secondary_header =
                       SealHeader([@ EXCEPT
                           !.my_lba = alt_lba,
                           !.entries_lba = alt_entries_lba,
                           !.last_usable_lba = last_usable_lba])],
                  MASK_SECONDARY, g.secondary_header)
    ELSE RecomputeResult(GPT_ERROR_INVALID_HEADERS, g)

\* GptRecomputeSize: the code returned and the GptData it leaves.
GptRecomputeSize(g) ==
    RecomputeWith(g, g.drive_sectors - 1,
                  g.drive_sectors - 1 - GPT_ENTRIES_SECTORS,
                  g.drive_sectors - 1 - GPT_ENTRIES_SECTORS - 1)

\* Lines 360-364 without line 361: my_lba is the primary's.
SecondaryFromPrimaryNotMoved(g) ==
    SealHeader([CopyHeader(g.secondary_header, g.primary_header) EXCEPT
                   !.alternate_lba = 1,
                   !.entries_lba = g.drive_sectors - 1 - GPT_ENTRIES_SECTORS])

\* Lines 360-364: the secondary header rebuilt from the primary.
SecondaryFromPrimary(g) ==
    SealHeader([CopyHeader(g.secondary_header, g.primary_header) EXCEPT
                   !.my_lba = g.drive_sectors - 1,
                   !.alternate_lba = 1,
                   !.entries_lba = g.drive_sectors - 1 - GPT_ENTRIES_SECTORS])

\* Lines 369-373 without line 372: entries_lba is the secondary's.
PrimaryFromSecondaryEntriesKept(g) ==
    SealHeader([CopyHeader(g.primary_header, g.secondary_header) EXCEPT
                   !.my_lba = 1,
                   !.alternate_lba = g.drive_sectors - 1])

\* Lines 369-373: the primary header rebuilt from the secondary.
PrimaryFromSecondary(g) ==
    SealHeader([CopyHeader(g.primary_header, g.secondary_header) EXCEPT
                   !.my_lba = 1,
                   !.alternate_lba = g.drive_sectors - 1,
                   !.entries_lba = 1 + 1])

\* Lines 357-376: rebuild the header that is not flagged valid.
RepairHeaders(g) ==
    IF MASK_PRIMARY = g.valid_headers
    THEN [g EXCEPT !.secondary_header = SecondaryFromPrimary(g),
                   !.modified = BitOr(@, GPT_MODIFIED_HEADER2),
                   !.valid_headers = MASK_BOTH]
    ELSE IF MASK_SECONDARY = g.valid_headers
    THEN [g EXCEPT !.primary_header = PrimaryFromSecondary(g),
                   !.modified = BitOr(@, GPT_MODIFIED_HEADER1),
                   !.valid_headers = MASK_BOTH]
    ELSE [g EXCEPT !.valid_headers = MASK_BOTH]

\* Lines 380-390, with the entries_size of line 379.
RepairEntriesOfSize(g, entries_size) ==
    IF MASK_PRIMARY = g.valid_entries
    THEN [g EXCEPT !.secondary_entries =
                       CopyEntries(@, g.primary_entries, entries_size),
                   !.modified = BitOr(@, GPT_MODIFIED_ENTRIES2),
                   !.valid_entries = MASK_BOTH]
    ELSE IF MASK_SECONDARY = g.valid_entries
    THEN [g EXCEPT !.primary_entries =
                       CopyEntries(@, g.secondary_entries, entries_size),
                   !.modified = BitOr(@, GPT_MODIFIED_ENTRIES1),
                   !.valid_entries = MASK_BOTH]
    ELSE [g EXCEPT !.valid_entries = MASK_BOTH]

\* Lines 378-390: copy the entries table flagged valid over the other.
RepairEntries(g) ==
    RepairEntriesOfSize(g, g.primary_header.size_of_entry
                           * g.primary_header.number_of_entries)

\* Lines 354-390: r is what GptRecomputeSize gave.
RepairAfterRecompute(r) ==
    IF r.ret # GPT_SUCCESS THEN r.gpt
    ELSE RepairEntries(RepairHeaders(r.gpt))

\* GptRepair without the early return of lines 350-351.
GptRepairUnguarded(g) == RepairAfterRecompute(GptRecomputeSize(g))

\* GptRepair: the GptData it leaves.
GptRepair(g) ==
    IF MASK_NONE = g.valid_headers \/ MASK_NONE = g.valid_entries THEN g
    ELSE RepairAfterRecompute(GptRecomputeSize(g))

\* Lines 458-461: the primary header with both CRCs recomputed.
ModifiedHeader(header, entries) ==
    SealHeader([header EXCEPT !.entries_crc32 = EntriesCrc(entries, header)])

\* GptModified: the GptData it leaves.
GptModified(g) ==
    GptRepair([g EXCEPT
                  !.primary_header = ModifiedHeader(@, g.primary_entries),
                  !.modified = BitOr(@, BitOr(GPT_MODIFIED_HEADER1,
                                              GPT_MODIFIED_ENTRIES1)),
                  !.valid_headers = MASK_PRIMARY,
                  !.valid_entries = MASK_PRIMARY])

-----
(* The images the caller loads *)

\* Drive sizes CheckParameters accepts, and one it rejects.
ValidDriveSizes == {15000, 20000}
DriveSizes == ValidDriveSizes \cup {66}

Entry(type, unique, starting_lba, ending_lba) ==
    [ type |-> type, unique |-> unique, starting_lba |-> starting_lba,
      ending_lba |-> ending_lba, attrs_low |-> 0, gpt_att |-> 0 ]

UnusedEntry == Entry(0, 0, 0, 0)

\* An entries buffer whose first entries are `used`, the rest unused.
Table(used) ==
    [k \in 1..NumSlots |-> IF k <= Len(used) THEN used[k] ELSE UnusedEntry]

\* A kernel at 100-199 and a root filesystem at 200-999.
TabGolden == Table(<< Entry(1, 1, 100, 199), Entry(2, 2, 200, 999) >>)
\* The same layout after the kernel's boot attributes were changed.
TabEdited ==
    Table(<< [Entry(1, 1, 100, 199) EXCEPT !.gpt_att = 15],
             Entry(2, 2, 200, 999) >>)
\* A root filesystem that fills a 20000-sector drive.
TabLarge == Table(<< Entry(1, 1, 100, 199), Entry(2, 2, 200, 19000) >>)
TabOverlap == Table(<< Entry(1, 1, 100, 200), Entry(2, 2, 150, 300) >>)
TabDupGuid == Table(<< Entry(1, 1, 100, 199), Entry(2, 1, 200, 999) >>)
TabOutOfRegion == Table(<< Entry(1, 1, 20, 50), Entry(2, 2, 200, 999) >>)

Tables ==
    {TabGolden, TabEdited, TabLarge, TabOverlap, TabDupGuid, TabOutOfRegion}

\* A header as a partitioning tool writes it for a drive of d sectors.
GoldenHeader(d, is_secondary, entries) ==
    LET h == [ signature |-> GPT_HEADER_SIGNATURE,
               revision |-> GPT_HEADER_REVISION,
               size |-> MIN_SIZE_OF_HEADER,
               header_crc32 |-> 0,
               reserved_zero |-> 0,
               my_lba |-> IF is_secondary # 0 THEN d - 1 ELSE 1,
               alternate_lba |-> IF is_secondary # 0 THEN 1 ELSE d - 1,
               first_usable_lba |-> 2 + GPT_ENTRIES_SECTORS,
               last_usable_lba |-> d - 1 - GPT_ENTRIES_SECTORS - 1,
               disk_uuid |-> 1,
               entries_lba |-> IF is_secondary # 0
                               THEN d - 1 - GPT_ENTRIES_SECTORS ELSE 2,
               number_of_entries |-> MAX_NUMBER_OF_ENTRIES,
               size_of_entry |-> SIZEOF_GptEntry,
               entries_crc32 |-> 0,
               padding |-> 0 ]
    IN  SealHeader([h EXCEPT !.entries_crc32 = EntriesCrc(entries, h)])

\* The GptData a caller holds after reading a consistent image from a drive
\* of d sectors.
GoldenImage(d, entries) ==
    [ sector_bytes |-> 512,
      drive_sectors |-> d,
      primary_header |-> GoldenHeader(d, 0, entries),
      secondary_header |-> GoldenHeader(d, 1, entries),
      primary_entries |-> entries,
      secondary_entries |-> entries,
      valid_headers |-> 0,
      valid_entries |-> 0,
      modified |-> 0 ]

\* An image written for a drive of d sectors, copied to a drive of d2 > d
\* sectors, its secondary copy then placed at the end of that drive by a
\* tool that left the primary header and the usable region alone.
MovedImage(d, d2, entries) ==
    [GoldenImage(d, entries) EXCEPT
        !.drive_sectors = d2,
        !.secondary_header =
            SealHeader([@ EXCEPT !.my_lba = d2 - 1,
                                 !.entries_lba = d2 - 1 - GPT_ENTRIES_SECTORS])]

GoldenImages ==
    {GoldenImage(d, TabGolden) : d \in ValidDriveSizes}
    \cup {GoldenImage(20000, TabLarge)}
    \cup {MovedImage(15000, 20000, TabGolden)}

\* One field of a header set to another value.
FieldFaults(h) ==
    ( {[h EXCEPT !.signature = s] : s \in {GPT_HEADER_SIGNATURE2, "XXXXXXXX"}}
      \cup {[h EXCEPT !.revision = 0]}
      \cup {[h EXCEPT !.size = n] : n \in {88, MAX_SIZE_OF_HEADER}}
      \cup {[h EXCEPT !.reserved_zero = 1]}
      \cup {[h EXCEPT !.my_lba = 2]}
      \cup {[h EXCEPT !.alternate_lba = a] :
               a \in {7} \cup {d - 1 : d \in ValidDriveSizes}}
      \cup {[h EXCEPT !.first_usable_lba = f] : f \in {33, 40}}
      \cup {[h EXCEPT !.last_usable_lba = l] :
               l \in {30} \cup {d - 34 : d \in ValidDriveSizes}
                          \cup {d - 33 : d \in ValidDriveSizes}}
      \cup {[h EXCEPT !.disk_uuid = 2]}
      \cup {[h EXCEPT !.entries_lba = 5]}
      \cup {[h EXCEPT !.number_of_entries = 64]}
      \cup {[h EXCEPT !.size_of_entry = 64]}
      \cup {[h EXCEPT !.entries_crc32 = 12345]}
      \cup {[h EXCEPT !.padding = 1]} ) \ {h}

\* What a header on the drive may have become: a field rewritten by a tool
\* (the header CRC recomputed), or bytes damaged under the old CRC.
HeaderFaults(h) ==
    {SealHeader(x) : x \in FieldFaults(h)}
    \cup {[h EXCEPT !.header_crc32 = (@ + 1) % CrcModulus],
          [h EXCEPT !.reserved_zero = 1],
          [h EXCEPT !.entries_crc32 = 12345]}

\* A header rewritten to match the entries stored beside it.
SyncHeader(h, entries) ==
    SealHeader([h EXCEPT !.entries_crc32 = EntriesCrc(entries, h)])

ModifiedChoices == {0, 9, 15}

---------------------------------------------------------------------------
(* The state machine *)

CallerOps == {"fault", "write_entries", "resize", "set_masks",
              "set_modified", "set_sector_bytes"}
CoreOps == {"sanity", "repair", "modified"}

Count(ops) == Cardinality({i \in 1..Len(hist) : hist[i].op \in ops})

\* No core call was made yet: the buffers are as read from the drive.
Loading == Count(CoreOps) = 0

CallerStep(op, g) ==
    /\ Count(CallerOps) < MaxEdits
    /\ gpt' = g
    /\ pre' = g
    /\ hist' = Append(hist, [op |-> op, ret |-> "-"])

CoreStep(op, ret, g) ==
    /\ Count(CoreOps) < MaxCalls
    /\ gpt' = g
    /\ pre' = gpt
    /\ hist' = Append(hist, [op |-> op, ret |-> ret])

Init ==
    /\ gpt \in GoldenImages
    /\ pre = gpt
    /\ hist = << >>

\* The image read from the drive has a damaged or rewritten header.
FaultHeader ==
    /\ Loading
    /\ \/ \E h \in HeaderFaults(gpt.primary_header) :
              CallerStep("fault", [gpt EXCEPT !.primary_header = h])
       \/ \E h \in HeaderFaults(gpt.secondary_header) :
              CallerStep("fault", [gpt EXCEPT !.secondary_header = h])

\* A tool rewrote one copy's entries CRC (and header CRC) to match the
\* entries stored with that copy.
FaultSyncCopy ==
    /\ Loading
    /\ \/ CallerStep("fault", [gpt EXCEPT !.primary_header =
              SyncHeader(gpt.primary_header, gpt.primary_entries)])
       \/ CallerStep("fault", [gpt EXCEPT !.secondary_header =
              SyncHeader(gpt.secondary_header, gpt.secondary_entries)])

\* The secondary entries on the drive hold another table.
FaultSecondaryEntries ==
    /\ Loading
    /\ \E t \in Tables \ {gpt.secondary_entries} :
           CallerStep("fault", [gpt EXCEPT !.secondary_entries = t])

\* The primary entries hold another table: damage on the drive, or the
\* caller's edit of the working set.
WriteEntries ==
    \E t \in Tables \ {gpt.primary_entries} :
        CallerStep("write_entries", [gpt EXCEPT !.primary_entries = t])

\* The caller sets drive_sectors.
Resize ==
    \E d \in DriveSizes \ {gpt.drive_sectors} :
        CallerStep("resize", [gpt EXCEPT !.drive_sectors = d])

SetSectorBytes ==
    /\ gpt.sector_bytes = 512
    /\ CallerStep("set_sector_bytes", [gpt EXCEPT !.sector_bytes = 4096])

\* The caller writes the validity masks.
SetMasks ==
    \E vh \in 0..3, ve \in 0..3 :
        /\ <<vh, ve>> # <<gpt.valid_headers, gpt.valid_entries>>
        /\ CallerStep("set_masks", [gpt EXCEPT !.valid_headers = vh,
                                               !.valid_entries = ve])

\* The caller writes the modified mask (clears it once the sectors are
\* persisted).
SetModified ==
    \E m \in ModifiedChoices \ {gpt.modified} :
        CallerStep("set_modified", [gpt EXCEPT !.modified = m])

SanityStep(r) == CoreStep("sanity", r.ret, r.gpt)

DoSanityCheck == SanityStep(GptSanityCheck(gpt))

DoRepair == CoreStep("repair", "-", GptRepair(gpt))

DoModified == CoreStep("modified", "-", GptModified(gpt))

Next ==
    \/ FaultHeader
    \/ FaultSyncCopy
    \/ FaultSecondaryEntries
    \/ WriteEntries
    \/ Resize
    \/ SetSectorBytes
    \/ SetMasks
    \/ SetModified
    \/ DoSanityCheck
    \/ DoRepair
    \/ DoModified

Spec == Init /\ [][Next]_vars

---------------------------------------------------------------------------
(* CheckEntries on its own: a caller hands it one entries table and one    *)
(* header.                                                                 *)

\* What a slot of the table holds: nothing, or a partition with one of two
\* GUIDs over LBAs taken from a few boundaries.
SlotChoices ==
    {UnusedEntry}
    \cup {Entry(1, u, s, e) : u \in {1, 2}, s \in {100, 150, 200, 300},
                              e \in {100, 150, 200, 300}}

SlotTables == [1..NumSlots -> SlotChoices]

\* The working set CheckEntries is called on: table t under a header
\* holding its CRC (synced), or under the header of another table.
EntriesImage(t, synced) ==
    [GoldenImage(20000, t) EXCEPT
        !.primary_header =
            GoldenHeader(20000, 0, IF synced THEN t ELSE TabGolden)]

InitEntries ==
    /\ \E t \in SlotTables, synced \in BOOLEAN : gpt = EntriesImage(t, synced)
    /\ pre = gpt
    /\ hist = << >>

\* CheckEntries(entries1, header1); it changes nothing.
DoCheckEntries ==
    /\ hist = << >>
    /\ gpt' = gpt
    /\ pre' = gpt
    /\ hist' = Append(hist,
           [op |-> "check_entries",
            ret |-> CheckEntries(gpt.primary_entries, gpt.primary_header)])

NextEntries == DoCheckEntries

SpecEntries == InitEntries /\ [][NextEntries]_vars

---------------------------------------------------------------------------
(* Vocabulary of the properties *)

N == Len(hist)
LastIs(op) == N >= 1 /\ hist[N].op = op
PrevIs(op) == N >= 2 /\ hist[N - 1].op = op
LastRet == hist[N].ret
PrevRet == hist[N - 1].ret

\* The four buffers.
Buffers(g) ==
    << g.primary_header, g.secondary_header,
       g.primary_entries, g.secondary_entries >>

BothBoth(g) == g.valid_headers = MASK_BOTH /\ g.valid_entries = MASK_BOTH

\* A GptSanityCheck of g returns GPT_SUCCESS with both masks BOTH.
SanityGivesBoth(g) ==
    /\ GptSanityCheck(g).ret = GPT_SUCCESS
    /\ BothBoth(GptSanityCheck(g).gpt)

\* The header fields that are the same in the two copies of a table.
SharedFields ==
    {"signature", "revision", "size", "reserved_zero", "first_usable_lba",
     "last_usable_lba", "disk_uuid", "number_of_entries", "size_of_entry",
     "entries_crc32"}

HeadersAgree(g) ==
    \A f \in SharedFields : g.primary_header[f] = g.secondary_header[f]

\* every bit of mask a is set in mask b
Subset(a, b) == BitAnd(a, b) = a

\* The image has converged: the headers agree, the tables are equal, and a
\* GptSanityCheck finds everything valid.
Converged(g) ==
    /\ HeadersAgree(g)
    /\ g.primary_entries = g.secondary_entries
    /\ SanityGivesBoth(g)

\* The last step was a GptRepair called right after a GptSanityCheck that
\* returned GPT_SUCCESS.
RepairAfterGoodSanity ==
    LastIs("repair") /\ PrevIs("sanity") /\ PrevRet = GPT_SUCCESS

\* Each header passes CheckHeader on its own.
OwnValid(g) ==
    /\ CheckHeader(g.primary_header, 0, g.drive_sectors).ret = 0
    /\ CheckHeader(g.secondary_header, 1, g.drive_sectors).ret = 0

---------------------------------------------------------------------------
(* C1: repair convergence.  After a GptRepair that follows a GptSanityCheck *)
(* returning GPT_SUCCESS, the two headers are equal in every field but     *)
(* my_lba, alternate_lba, entries_lba and header_crc32, the two entry      *)
(* tables are equal, and a further GptSanityCheck returns GPT_SUCCESS with *)
(* both masks BOTH.  TLC refutes it: when the geometry adapter rewrites    *)
(* the primary header while the secondary passes CheckHeader on its own    *)
(* and the rewrite leaves the two headers in agreement, line 327 sees      *)
(* valid_headers = BOTH, not PRIMARY, rolls the header back, and GptRepair *)
(* returns without repairing anything.                                     *)
C1_RepairConverges == RepairAfterGoodSanity => Converged(gpt)

---------------------------------------------------------------------------
(* C2: when GptRepair returns, either both masks are BOTH or the four      *)
(* buffers and the modified mask are what they were when it was called,    *)
(* whatever the buffers and the masks the caller supplied.                 *)
C2_RepairAllOrNothing ==
    LastIs("repair") =>
        \/ BothBoth(gpt)
        \/ /\ Buffers(gpt) = Buffers(pre)
           /\ gpt.modified = pre.modified

\* A GptRepair whose geometry adaptation rewrote a header, failed, and
\* restored it: the masks did not reach BOTH/BOTH.
C2_Witness ==
    /\ LastIs("repair")
    /\ pre.valid_headers # MASK_NONE /\ pre.valid_entries # MASK_NONE
    /\ GptRecomputeSize(pre).ret = GPT_ERROR_INVALID_HEADERS
    /\ BitAnd(pre.valid_headers, MASK_PRIMARY) # 0
    /\ pre.primary_header.alternate_lba # pre.drive_sectors - 1
    /\ ~BothBoth(gpt)

---------------------------------------------------------------------------
(* C3: non-recovery safety.  A GptRepair called with valid_headers = NONE  *)
(* or valid_entries = NONE changes none of the four buffers, nor modified, *)
(* nor the two validity masks.                                             *)
C3_RepairNoneIsNoOp ==
    ( /\ LastIs("repair")
      /\ pre.valid_headers = MASK_NONE \/ pre.valid_entries = MASK_NONE )
    => gpt = pre

\* A GptRepair called with one mask NONE and the other not, on an image
\* whose two entry tables differ.
C3_Witness ==
    /\ LastIs("repair")
    /\ pre.valid_entries = MASK_NONE
    /\ pre.valid_headers = MASK_PRIMARY
    /\ pre.primary_entries # pre.secondary_entries
    /\ CheckParameters(pre) = GPT_SUCCESS

---------------------------------------------------------------------------
\* The caller's edit is one the validators accept: with both CRCs
\* recomputed as GptModified does, the primary header passes CheckHeader
\* and the primary entries pass CheckEntries under it.
WellFormedEdit(g) ==
    /\ CheckParameters(g) = GPT_SUCCESS
    /\ CheckHeader(ModifiedHeader(g.primary_header, g.primary_entries),
                   0, g.drive_sectors).ret = 0
    /\ CheckEntries(g.primary_entries,
                    ModifiedHeader(g.primary_header, g.primary_entries))
           = GPT_SUCCESS

(* C4: CRC round trip.  After GptModified returns, a following             *)
(* GptSanityCheck returns GPT_SUCCESS with both masks BOTH.  The claim is  *)
(* stated here for the edits the validators accept only (a table that      *)
(* overlaps or a header out of range cannot validate whatever its CRCs),   *)
(* and TLC refutes it even so: GptModified calls GptRepair, whose geometry *)
(* adapter rolls back when the secondary header passes CheckHeader on its  *)
(* own and agrees with the rewritten primary (line 327), so the secondary  *)
(* copy is left as it was.                                                 *)
C4_ModifiedRoundTrip ==
    (LastIs("modified") /\ WellFormedEdit(pre)) => SanityGivesBoth(gpt)

---------------------------------------------------------------------------
(* C5: GptSanityCheck is read-only and idempotent.  It leaves the four     *)
(* buffers and modified as they were, and a second call in a row returns   *)
(* the same code and leaves the same masks as the first, whatever the      *)
(* masks were before the first.                                            *)
C5_SanityReadOnlyIdempotent ==
    LastIs("sanity") =>
        /\ Buffers(gpt) = Buffers(pre)
        /\ gpt.modified = pre.modified
        /\ GptSanityCheck(gpt).ret = LastRet
        /\ GptSanityCheck(gpt).gpt = gpt

\* A GptSanityCheck that computed the CRC of both headers and replaced
\* masks the caller had set otherwise.
C5_Witness ==
    /\ LastIs("sanity")
    /\ LastRet = GPT_SUCCESS
    /\ gpt.valid_headers = MASK_SECONDARY
    /\ pre.valid_headers = MASK_PRIMARY
    /\ pre.primary_header.header_crc32 # 0
    /\ pre.secondary_header.header_crc32 # 0

---------------------------------------------------------------------------
(* C6: the modified mask only grows.  Every bit set in modified when       *)
(* GptSanityCheck, GptRepair or GptModified is called is still set when    *)
(* the call returns.                                                       *)
C6_ModifiedOnlyGrows ==
    (N >= 1 /\ hist[N].op \in CoreOps) => Subset(pre.modified, gpt.modified)

\* A GptRepair entered with bits set in modified that set further bits
\* through the geometry adapter.
C6_Witness ==
    /\ LastIs("repair")
    /\ pre.modified = 9
    /\ gpt.modified = 15
    /\ GptRecomputeSize(pre).gpt.modified # pre.modified

---------------------------------------------------------------------------
\* Both headers pass CheckHeader, each table passes CheckEntries under its
\* own header, and the tables differ, as do their CRCs.
DivergentCopies(g) ==
    /\ CheckParameters(g) = GPT_SUCCESS
    /\ OwnValid(g)
    /\ CheckEntries(g.primary_entries, g.primary_header) = GPT_SUCCESS
    /\ CheckEntries(g.secondary_entries, g.secondary_header) = GPT_SUCCESS
    /\ g.primary_entries # g.secondary_entries
    /\ g.primary_header.entries_crc32 # g.secondary_header.entries_crc32

(* C7 as the code has it: on divergent copies GptSanityCheck returns       *)
(* GPT_SUCCESS with valid_entries = PRIMARY and valid_headers = PRIMARY    *)
(* (the primary table passes under the primary header, so there is no      *)
(* retry with the secondary header, and line 277 clears SECONDARY), and    *)
(* after the GptRepair that follows both tables equal the primary table's  *)
(* original content and both masks are BOTH.                               *)
C7_DivergentPrimaryWins ==
    /\ (LastIs("sanity") /\ DivergentCopies(pre)) =>
          /\ LastRet = GPT_SUCCESS
          /\ gpt.valid_entries = MASK_PRIMARY
          /\ gpt.valid_headers = MASK_PRIMARY
    /\ (LastIs("repair") /\ PrevIs("sanity") /\ DivergentCopies(pre)) =>
          /\ gpt.primary_entries = pre.primary_entries
          /\ gpt.secondary_entries = pre.primary_entries
          /\ BothBoth(gpt)

\* A GptRepair after a GptSanityCheck of divergent copies: the secondary
\* table was overwritten.
C7_Witness ==
    /\ LastIs("repair") /\ PrevIs("sanity")
    /\ DivergentCopies(pre)
    /\ gpt.secondary_entries # pre.secondary_entries

(* C7 as claimed: on divergent copies GptSanityCheck ends with             *)
(* valid_entries = SECONDARY and PRIMARY cleared from valid_headers, and   *)
(* after GptRepair both tables equal the secondary table's original        *)
(* content.                                                                *)
C7_DivergentSecondaryWins ==
    /\ (LastIs("sanity") /\ DivergentCopies(pre)) =>
          /\ gpt.valid_entries = MASK_SECONDARY
          /\ BitAnd(gpt.valid_headers, MASK_PRIMARY) = 0
    /\ (LastIs("repair") /\ PrevIs("sanity") /\ DivergentCopies(pre)) =>
          /\ gpt.primary_entries = pre.secondary_entries
          /\ gpt.secondary_entries = pre.secondary_entries

---------------------------------------------------------------------------
\* last_usable_lba as GptRecomputeSize computes it for the drive (line 290).
CanonicalLastUsable(g) == g.drive_sectors - 1 - GPT_ENTRIES_SECTORS - 1

\* The image is fully valid for a drive of d0 sectors, with last_usable_lba
\* canonical for that size.
BuiltFor(g, d0) ==
    /\ SanityGivesBoth([g EXCEPT !.drive_sectors = d0])
    /\ g.primary_header.last_usable_lba
           = CanonicalLastUsable([g EXCEPT !.drive_sectors = d0])
    /\ g.secondary_header.last_usable_lba
           = CanonicalLastUsable([g EXCEPT !.drive_sectors = d0])

\* An image built for a larger drive, presented with this smaller one.
ShrunkDrive(g) ==
    /\ CheckParameters(g) = GPT_SUCCESS
    /\ \E d0 \in ValidDriveSizes : d0 > g.drive_sectors /\ BuiltFor(g, d0)

\* An image built for a smaller drive, presented with this larger one.
GrownDrive(g) ==
    /\ CheckParameters(g) = GPT_SUCCESS
    /\ \E d0 \in ValidDriveSizes : d0 < g.drive_sectors /\ BuiltFor(g, d0)

\* The geometry was adapted to the drive and everything is valid.
AdaptedToDrive(g) ==
    /\ BothBoth(g)
    /\ g.primary_header.last_usable_lba = CanonicalLastUsable(g)
    /\ g.primary_header.alternate_lba = g.drive_sectors - 1
    /\ g.secondary_header.my_lba = g.drive_sectors - 1
    /\ SanityGivesBoth(g)

(* C8 as the code has it: when an image built for a larger drive is        *)
(* presented with a smaller drive_sectors, GptSanityCheck invalidates both *)
(* headers (the secondary for its my_lba, the primary because its          *)
(* last_usable_lba is beyond the smaller drive, line 109), returns         *)
(* GPT_ERROR_INVALID_HEADERS with both masks NONE, and the GptRepair that  *)
(* follows changes nothing.  It is for a larger drive_sectors that         *)
(* GptSanityCheck keeps the primary header alone and GptRepair adapts      *)
(* last_usable_lba and alternate_lba, rebuilds the secondary header at     *)
(* drive_sectors - 1 and ends with both masks BOTH.                        *)
C8_ShrunkDriveRejected ==
    /\ (LastIs("sanity") /\ ShrunkDrive(pre)) =>
          /\ LastRet = GPT_ERROR_INVALID_HEADERS
          /\ gpt.valid_headers = MASK_NONE
          /\ gpt.valid_entries = MASK_NONE
    /\ (LastIs("repair") /\ PrevIs("sanity") /\ ShrunkDrive(pre)) =>
          gpt = pre
    /\ (LastIs("sanity") /\ GrownDrive(pre)) =>
          /\ LastRet = GPT_SUCCESS
          /\ gpt.valid_headers = MASK_PRIMARY
    /\ (LastIs("repair") /\ PrevIs("sanity") /\ GrownDrive(pre)) =>
          AdaptedToDrive(gpt)

\* A GptRepair after the GptSanityCheck of an image built for 20000 sectors
\* on a drive of 15000.
C8_Witness ==
    /\ LastIs("repair") /\ PrevIs("sanity")
    /\ PrevRet = GPT_ERROR_INVALID_HEADERS
    /\ ShrunkDrive(pre)
    /\ pre.drive_sectors = 15000
    /\ pre.primary_header.last_usable_lba = 19966

(* C8 as claimed: when an image built for a larger drive is presented with *)
(* a smaller drive_sectors, GptSanityCheck keeps the primary header valid  *)
(* and invalidates the secondary only, and the GptRepair that follows      *)
(* adapts the primary's last_usable_lba and alternate_lba, rebuilds the    *)
(* secondary header at drive_sectors - 1 and ends with both masks BOTH.    *)
C8_ShrunkDriveAdapted ==
    /\ (LastIs("sanity") /\ ShrunkDrive(pre)) =>
          gpt.valid_headers = MASK_PRIMARY
    /\ (LastIs("repair") /\ PrevIs("sanity") /\ ShrunkDrive(pre)) =>
          /\ BothBoth(gpt)
          /\ gpt.primary_header.last_usable_lba = CanonicalLastUsable(gpt)
          /\ gpt.primary_header.alternate_lba = gpt.drive_sectors - 1
          /\ gpt.secondary_header.my_lba = gpt.drive_sectors - 1

---------------------------------------------------------------------------
\* The last three steps: a GptSanityCheck that gave BOTH/BOTH, the caller
\* changing drive_sectors to another accepted value, and GptRepair called
\* with the masks as they were.
ResizedRepair ==
    /\ N >= 3
    /\ hist[N].op = "repair"
    /\ hist[N - 1].op = "resize"
    /\ hist[N - 2].op = "sanity" /\ hist[N - 2].ret = GPT_SUCCESS
    /\ BothBoth(pre)
    /\ CheckParameters(pre) = GPT_SUCCESS

\* The usable region and every used entry end within what the drive leaves
\* for them.
Fits(g) ==
    /\ g.primary_header.first_usable_lba <= CanonicalLastUsable(g)
    /\ \A k \in 1..NumSlots :
          \/ IsUnusedEntry(g.primary_entries[k])
          \/ g.primary_entries[k].ending_lba <= CanonicalLastUsable(g)

\* The primary header already has the values of lines 288-290 for the
\* drive: GptRecomputeSize returns at line 298.
AlreadyAdapted(g) ==
    /\ g.primary_header.alternate_lba = g.drive_sectors - 1
    /\ g.primary_header.last_usable_lba = CanonicalLastUsable(g)

\* What C9 promises of the image after the repair.
Relocated(g) ==
    /\ g.secondary_header.my_lba = g.drive_sectors - 1
    /\ g.secondary_header.entries_lba
           = g.secondary_header.my_lba - GPT_ENTRIES_SECTORS
    /\ g.primary_header.alternate_lba = g.drive_sectors - 1
    /\ OwnValid(g)
    /\ BothBoth(g)

(* C9 as the code has it: from an image for which GptSanityCheck gave      *)
(* BOTH/BOTH, after drive_sectors is changed to another accepted value     *)
(* and GptRepair is called with the masks still BOTH/BOTH, the secondary   *)
(* header has my_lba = drive_sectors - 1 and entries_lba = my_lba - 32,    *)
(* the primary has alternate_lba = drive_sectors - 1, both pass            *)
(* CheckHeader and both masks are BOTH, provided that first_usable_lba     *)
(* and every used entry end at or below the new drive_sectors - 34, and    *)
(* that the primary header does not already carry the new size's           *)
(* alternate_lba and last_usable_lba.                                      *)
C9_ResizeRelocates ==
    (ResizedRepair /\ Fits(pre) /\ ~AlreadyAdapted(pre)) => Relocated(gpt)

\* A repair that moved the secondary header from the end of a 20000-sector
\* drive to the end of a 15000-sector one.
C9_Witness ==
    /\ ResizedRepair /\ Fits(pre) /\ ~AlreadyAdapted(pre)
    /\ pre.drive_sectors = 15000
    /\ pre.secondary_header.my_lba = 19999
    /\ gpt.secondary_header.my_lba = 14999

(* C9 as claimed: the same for every image GptSanityCheck gave BOTH/BOTH   *)
(* for and every other accepted drive_sectors, larger or smaller.          *)
C9_ResizeAlwaysRelocates == ResizedRepair => Relocated(gpt)

---------------------------------------------------------------------------
\* The indices of the used entries of a table.
UsedSlots(entries) == {k \in 1..Len(entries) : ~IsUnusedEntry(entries[k])}

\* Every used entry lies inside [first_usable_lba, last_usable_lba], start
\* not after end.
AllInRegion(entries, h) ==
    \A k \in UsedSlots(entries) :
        /\ entries[k].starting_lba >= h.first_usable_lba
        /\ entries[k].ending_lba <= h.last_usable_lba
        /\ entries[k].starting_lba <= entries[k].ending_lba

\* Entries a (lower index) and b (higher index) of the table are such that
\* A.start < B.start <= A.end < B.end, with distinct GUIDs.
Staggered(entries, a, b) ==
    /\ a < b
    /\ entries[a].starting_lba < entries[b].starting_lba
    /\ entries[b].starting_lba <= entries[a].ending_lba
    /\ entries[a].ending_lba < entries[b].ending_lba
    /\ entries[a].unique # entries[b].unique

\* The table's CRC matches the header, its used entries lie in the usable
\* region, and two of them are staggered.
StaggeredTable(entries, h) ==
    /\ EntriesCrc(entries, h) = h.entries_crc32
    /\ AllInRegion(entries, h)
    /\ \E a, b \in UsedSlots(entries) : Staggered(entries, a, b)

\* The same, the two staggered entries being the only used ones.
StaggeredPair(entries, h) ==
    /\ StaggeredTable(entries, h)
    /\ Cardinality(UsedSlots(entries)) = 2

(* C10 as the code has it: for a table whose CRC matches the header, whose *)
(* only used entries are A at the lower index and B at the higher, both    *)
(* inside the usable region, with A.start < B.start <= A.end < B.end and   *)
(* distinct GUIDs, CheckEntries returns GPT_ERROR_END_LBA_OVERLAP: A is    *)
(* scanned first, its start is outside B and its end inside.               *)
C10_StaggeredGivesEndOverlap ==
    (LastIs("check_entries")
        /\ StaggeredPair(gpt.primary_entries, gpt.primary_header))
    => LastRet = GPT_ERROR_END_LBA_OVERLAP

\* CheckEntries has run on A = [100, 200], B = [150, 300].
C10_Witness ==
    /\ LastIs("check_entries")
    /\ StaggeredPair(gpt.primary_entries, gpt.primary_header)
    /\ gpt.primary_entries[1].starting_lba = 100
    /\ gpt.primary_entries[1].ending_lba = 200
    /\ gpt.primary_entries[2].starting_lba = 150
    /\ gpt.primary_entries[2].ending_lba = 300

(* C10 as claimed: for a table whose CRC matches the header, whose used    *)
(* entries all lie inside the usable region, with A at the lower index and *)
(* B at a higher one such that A.start < B.start <= A.end < B.end and      *)
(* distinct GUIDs, CheckEntries returns GPT_ERROR_START_LBA_OVERLAP.       *)
C10_StaggeredGivesStartOverlap ==
    (LastIs("check_entries")
        /\ StaggeredTable(gpt.primary_entries, gpt.primary_header))
    => LastRet = GPT_ERROR_START_LBA_OVERLAP

---------------------------------------------------------------------------
\* The inclusive LBA ranges of entries a and b of the table overlap.
RangesOverlap(entries, a, b) ==
    /\ entries[a].starting_lba <= entries[b].ending_lba
    /\ entries[b].starting_lba <= entries[a].ending_lba

\* The table's CRC matches the header, its used entries lie in the usable
\* region with start <= end, and two of them overlap.
OverlappingTable(entries, h) ==
    /\ EntriesCrc(entries, h) = h.entries_crc32
    /\ AllInRegion(entries, h)
    /\ \E a, b \in UsedSlots(entries) :
           a # b /\ RangesOverlap(entries, a, b)

\* The unique GUIDs of the used entries are pairwise distinct.
DistinctGuids(entries) ==
    \A a, b \in UsedSlots(entries) :
        a # b => entries[a].unique # entries[b].unique

(* C11 as the code has it: for a table whose CRC matches the header and    *)
(* whose used entries lie in the usable region with start <= end, if two   *)
(* used entries have overlapping inclusive LBA ranges (strict containment  *)
(* included), CheckEntries never returns GPT_SUCCESS; it returns           *)
(* GPT_ERROR_START_LBA_OVERLAP or GPT_ERROR_END_LBA_OVERLAP when the       *)
(* unique GUIDs of the used entries are pairwise distinct, and one of      *)
(* these or GPT_ERROR_DUP_GUID when some are shared.                       *)
C11_OverlapDetected ==
    (LastIs("check_entries")
        /\ OverlappingTable(gpt.primary_entries, gpt.primary_header))
    => /\ LastRet \in {GPT_ERROR_START_LBA_OVERLAP,
                       GPT_ERROR_END_LBA_OVERLAP, GPT_ERROR_DUP_GUID}
       /\ DistinctGuids(gpt.primary_entries) =>
              LastRet \in {GPT_ERROR_START_LBA_OVERLAP,
                           GPT_ERROR_END_LBA_OVERLAP}

\* CheckEntries has run on a table in which the entry at the lower index
\* strictly contains the other, with distinct GUIDs.
C11_Witness ==
    /\ LastIs("check_entries")
    /\ OverlappingTable(gpt.primary_entries, gpt.primary_header)
    /\ DistinctGuids(gpt.primary_entries)
    /\ gpt.primary_entries[1].starting_lba < gpt.primary_entries[2].starting_lba
    /\ gpt.primary_entries[2].ending_lba < gpt.primary_entries[1].ending_lba
    /\ UsedSlots(gpt.primary_entries) = {1, 2}
    /\ LastRet = GPT_ERROR_START_LBA_OVERLAP

(* C11 as claimed: for such a table, also when the overlapping entries     *)
(* share a unique GUID, CheckEntries returns GPT_ERROR_START_LBA_OVERLAP   *)
(* or GPT_ERROR_END_LBA_OVERLAP.                                           *)
C11_OverlapGivesOverlapCode ==
    (LastIs("check_entries")
        /\ OverlappingTable(gpt.primary_entries, gpt.primary_header))
    => LastRet \in {GPT_ERROR_START_LBA_OVERLAP, GPT_ERROR_END_LBA_OVERLAP}

---------------------------------------------------------------------------
\* The image with the primary header as a partitioning tool writes it for
\* the drive and the primary entries.
WithGoldenPrimary(g) ==
    [g EXCEPT !.primary_header =
                  GoldenHeader(g.drive_sectors, 0, g.primary_entries)]

\* A fully valid image with canonical geometry, but for its primary
\* header, which fails CheckHeader.
DamagedPrimaryOnly(g) ==
    /\ CheckParameters(g) = GPT_SUCCESS
    /\ BuiltFor(WithGoldenPrimary(g), g.drive_sectors)
    /\ g.secondary_header.alternate_lba = 1
    /\ CheckHeader(g.primary_header, 0, g.drive_sectors).ret # 0

(* C12: single damaged primary header.  On a fully valid image with        *)
(* canonical geometry whose primary header alone is corrupted so that it   *)
(* fails CheckHeader, GptSanityCheck returns GPT_SUCCESS with              *)
(* valid_headers = SECONDARY and valid_entries = BOTH; the GptRepair that  *)
(* follows leaves both masks BOTH, sets GPT_MODIFIED_HEADER1 in modified,  *)
(* and the rebuilt primary header passes CheckHeader as a primary, with    *)
(* my_lba = 1 and entries_lba = 2.                                         *)
C12_DamagedPrimaryRebuilt ==
    /\ (LastIs("sanity") /\ DamagedPrimaryOnly(pre)) =>
          /\ LastRet = GPT_SUCCESS
          /\ gpt.valid_headers = MASK_SECONDARY
          /\ gpt.valid_entries = MASK_BOTH
    /\ (LastIs("repair") /\ PrevIs("sanity") /\ DamagedPrimaryOnly(pre)) =>
          /\ BothBoth(gpt)
          /\ BitAnd(gpt.modified, GPT_MODIFIED_HEADER1) # 0
          /\ CheckHeader(gpt.primary_header, 0, gpt.drive_sectors).ret = 0
          /\ gpt.primary_header.my_lba = 1
          /\ gpt.primary_header.entries_lba = 2

\* A GptRepair that rebuilt a primary header whose signature was lost,
\* with HEADER1 not set in modified before.
C12_Witness ==
    /\ LastIs("repair") /\ PrevIs("sanity")
    /\ DamagedPrimaryOnly(pre)
    /\ pre.primary_header.signature = "XXXXXXXX"
    /\ pre.modified = 0
    /\ gpt.primary_header.signature = GPT_HEADER_SIGNATURE

---------------------------------------------------------------------------
(* C13: GptModified either restores BOTH or changes nothing.  After        *)
(* GptModified returns, either both masks are BOTH or the four buffers are *)
(* what they were when it was called.  Stated here for the edits the       *)
(* validators accept, and refuted by TLC even so: GptModified stores the   *)
(* recomputed CRCs in the primary header (lines 458-461), then GptRepair   *)
(* gives up in the geometry adapter when the secondary header passes       *)
(* CheckHeader on its own and agrees with the rewritten primary (line      *)
(* 327), so the primary header has changed and valid_headers is PRIMARY.   *)
C13_ModifiedAllOrNothing ==
    (LastIs("modified") /\ WellFormedEdit(pre)) =>
        \/ BothBoth(gpt)
        \/ Buffers(gpt) = Buffers(pre)

---------------------------------------------------------------------------
\* The two validity masks.
Masks(g) == << g.valid_headers, g.valid_entries >>

\* GptRepair returns at line 351.
RepairReturnsEarly(g) ==
    g.valid_headers = MASK_NONE \/ g.valid_entries = MASK_NONE

\* GptRepair returns at line 355: the geometry adaptation failed.
RepairGivesUp(g) ==
    ~RepairReturnsEarly(g) /\ GptRecomputeSize(g).ret # GPT_SUCCESS

(* C14 as the code has it: GptRepair ends with both masks BOTH unless it   *)
(* returned early or its geometry adaptation failed.  In both of these     *)
(* cases modified is what it was when GptRepair was called.  After an      *)
(* early return the masks are what they were too; after a failed           *)
(* adaptation they are those a GptSanityCheck of the buffers gives (line   *)
(* 329), which are the masks at entry when these came from GptSanityCheck  *)
(* and need not be otherwise.                                              *)
C14_FailedRepairMasks ==
    LastIs("repair") =>
        /\ ~BothBoth(gpt) => (RepairReturnsEarly(pre) \/ RepairGivesUp(pre))
        /\ RepairReturnsEarly(pre) =>
              Masks(gpt) = Masks(pre) /\ gpt.modified = pre.modified
        /\ RepairGivesUp(pre) =>
              /\ Masks(gpt) = Masks(GptSanityCheck(pre).gpt)
              /\ gpt.modified = pre.modified
        /\ (RepairGivesUp(pre) /\ PrevIs("sanity")) =>
              Masks(gpt) = Masks(pre)

\* A GptRepair called with masks PRIMARY/PRIMARY whose geometry adaptation
\* failed and left other masks.
C14_Witness ==
    /\ LastIs("repair")
    /\ RepairGivesUp(pre)
    /\ Masks(pre) = << MASK_PRIMARY, MASK_PRIMARY >>
    /\ Masks(gpt) # Masks(pre)
    /\ ~BothBoth(gpt)

(* C14 as claimed: whenever GptRepair returns without both masks BOTH,     *)
(* valid_headers, valid_entries and modified have the values they had      *)
(* when it was called, for any masks the caller supplied.                  *)
C14_FailedRepairKeepsMasks ==
    (LastIs("repair") /\ ~BothBoth(gpt)) =>
        /\ Masks(gpt) = Masks(pre)
        /\ gpt.modified = pre.modified

---------------------------------------------------------------------------
(* Attribute accessors (lines 393-445)                                     *)
(*                                                                         *)
(* attrs is a union of the 64-bit `whole` and the struct `fields`, whose   *)
(* last 16-bit member gpt_att is bits 48..63 of `whole` (gpt.h).  An entry *)
(* holds bits 0..47 in attrs_low and bits 48..63 in gpt_att.               *)

\* a bit of attrs.whole
CGPT_ATTRIBUTE_LEGACY_BOOTABLE == 4
\* offsets and masks within gpt_att
CGPT_ATTRIBUTE_PRIORITY_OFFSET == 0
CGPT_ATTRIBUTE_PRIORITY_MASK == 15
CGPT_ATTRIBUTE_TRIES_OFFSET == 4
CGPT_ATTRIBUTE_TRIES_MASK == 240
CGPT_ATTRIBUTE_SUCCESSFUL_OFFSET == 8
CGPT_ATTRIBUTE_SUCCESSFUL_MASK == 256

\* width of gpt_att
AttWidth == 65536

\* x << n and x >> n on non-negative x
ShiftLeft(x, n) == x * 2^n
ShiftRight(x, n) == x \div 2^n

\* Line 395.  The mask lies in bits 0..47, so `whole & mask` is
\* attrs_low & mask.
GetEntryLegacyBootable(e) ==
    IF BitAnd(e.attrs_low, CGPT_ATTRIBUTE_LEGACY_BOOTABLE) # 0 THEN 1 ELSE 0

GetEntrySuccessful(e) ==
    ShiftRight(BitAnd(e.gpt_att, CGPT_ATTRIBUTE_SUCCESSFUL_MASK),
               CGPT_ATTRIBUTE_SUCCESSFUL_OFFSET)

GetEntryPriority(e) ==
    ShiftRight(BitAnd(e.gpt_att, CGPT_ATTRIBUTE_PRIORITY_MASK),
               CGPT_ATTRIBUTE_PRIORITY_OFFSET)

GetEntryTries(e) ==
    ShiftRight(BitAnd(e.gpt_att, CGPT_ATTRIBUTE_TRIES_MASK),
               CGPT_ATTRIBUTE_TRIES_OFFSET)

\* Lines 418-421.  `whole |= mask` and `whole &= ~mask` with a mask in bits
\* 0..47 act on attrs_low and leave gpt_att.
SetEntryLegacyBootable(e, bootable) ==
    IF bootable # 0
    THEN [e EXCEPT !.attrs_low = BitOr(@, CGPT_ATTRIBUTE_LEGACY_BOOTABLE)]
    ELSE [e EXCEPT !.attrs_low = BitClear(@, CGPT_ATTRIBUTE_LEGACY_BOOTABLE)]

SetEntrySuccessful(e, successful) ==
    IF successful # 0
    THEN [e EXCEPT !.gpt_att =
              BitOr(@, CGPT_ATTRIBUTE_SUCCESSFUL_MASK) % AttWidth]
    ELSE [e EXCEPT !.gpt_att = BitClear(@, CGPT_ATTRIBUTE_SUCCESSFUL_MASK)]

\* Lines 434-437 without the clearing of line 434.
SetEntryPriorityNoClear(e, priority) ==
    [e EXCEPT !.gpt_att =
        BitOr(@, BitAnd(ShiftLeft(priority, CGPT_ATTRIBUTE_PRIORITY_OFFSET),
                        CGPT_ATTRIBUTE_PRIORITY_MASK)) % AttWidth]

SetEntryPriority(e, priority) ==
    [e EXCEPT !.gpt_att =
        BitOr(BitClear(@, CGPT_ATTRIBUTE_PRIORITY_MASK),
              BitAnd(ShiftLeft(priority, CGPT_ATTRIBUTE_PRIORITY_OFFSET),
                     CGPT_ATTRIBUTE_PRIORITY_MASK)) % AttWidth]

SetEntryTries(e, tries) ==
    [e EXCEPT !.gpt_att =
        BitOr(BitClear(@, CGPT_ATTRIBUTE_TRIES_MASK),
              BitAnd(ShiftLeft(tries, CGPT_ATTRIBUTE_TRIES_OFFSET),
                     CGPT_ATTRIBUTE_TRIES_MASK)) % AttWidth]

---------------------------------------------------------------------------
(* The accessors as a state machine: a caller sets attribute fields of the *)
(* entries of entries1.  Here hist holds records [op, slot, arg].          *)

\* setter calls in one behaviour
MaxAttrCalls == 1
\* the setters are given 0..MaxAttrValue: the values of a 4-bit field and
\* two wider ones
MaxAttrValue == 17

AttrValues == 0..MaxAttrValue

\* Bits 0..47 and bits 48..63 of the attribute words the first entry
\* starts with: all clear, all fields set, reserved bits only, a mixture.
AttrLowChoices == {0, 4, 65531, 65535}
AttrHighChoices == {0, 511, 65024, 65535, 421}

AttrImage(low, att) ==
    GoldenImage(20000,
        [TabGolden EXCEPT ![1].attrs_low = low, ![1].gpt_att = att])

InitAttrs ==
    /\ \E low \in AttrLowChoices, att \in AttrHighChoices :
           gpt = AttrImage(low, att)
    /\ pre = gpt
    /\ hist = << >>

\* One setter call on entries1[k].
AttrStep(op, k, v, e) ==
    /\ Len(hist) < MaxAttrCalls
    /\ gpt' = [gpt EXCEPT !.primary_entries[k] = e]
    /\ pre' = gpt
    /\ hist' = Append(hist, [op |-> op, slot |-> k, arg |-> v])

DoSetEntryLegacyBootable ==
    \E k \in 1..NumSlots, v \in AttrValues :
        AttrStep("SetEntryLegacyBootable", k, v,
                 SetEntryLegacyBootable(gpt.primary_entries[k], v))

DoSetEntrySuccessful ==
    \E k \in 1..NumSlots, v \in AttrValues :
        AttrStep("SetEntrySuccessful", k, v,
                 SetEntrySuccessful(gpt.primary_entries[k], v))

DoSetEntryPriority ==
    \E k \in 1..NumSlots, v \in AttrValues :
        AttrStep("SetEntryPriority", k, v,
                 SetEntryPriority(gpt.primary_entries[k], v))

DoSetEntryTries ==
    \E k \in 1..NumSlots, v \in AttrValues :
        AttrStep("SetEntryTries", k, v,
                 SetEntryTries(gpt.primary_entries[k], v))

NextAttrs ==
    \/ DoSetEntryLegacyBootable
    \/ DoSetEntrySuccessful
    \/ DoSetEntryPriority
    \/ DoSetEntryTries

SpecAttrs == InitAttrs /\ [][NextAttrs]_vars

---------------------------------------------------------------------------
\* The last setter call: its entry before and after, and its argument.
SetterIs(op) == LastIs(op)
EntryBefore == pre.primary_entries[hist[N].slot]
EntryAfter == gpt.primary_entries[hist[N].slot]
SetterArg == hist[N].arg

\* The four fields as the getters decode them.
AttrFields(e) ==
    [ legacy_bootable |-> GetEntryLegacyBootable(e),
      successful |-> GetEntrySuccessful(e),
      priority |-> GetEntryPriority(e),
      tries |-> GetEntryTries(e) ]

\* The bits of the attribute word outside mask_low and mask_att.
AttrOtherBits(e, mask_low, mask_att) ==
    << BitClear(e.attrs_low, mask_low), BitClear(e.gpt_att, mask_att) >>

\* The last call changed, of the working set, at most the field `field`
\* (bits mask_low of attrs_low, mask_att of gpt_att) of its entry.
AttrFramed(field, mask_low, mask_att) ==
    /\ [AttrFields(EntryAfter) EXCEPT ![field] = 0]
           = [AttrFields(EntryBefore) EXCEPT ![field] = 0]
    /\ AttrOtherBits(EntryAfter, mask_low, mask_att)
           = AttrOtherBits(EntryBefore, mask_low, mask_att)
    /\ [EntryAfter EXCEPT !.attrs_low = 0, !.gpt_att = 0]
           = [EntryBefore EXCEPT !.attrs_low = 0, !.gpt_att = 0]
    /\ gpt = [pre EXCEPT !.primary_entries[hist[N].slot] = EntryAfter]

\* v cut to a field of the given mask and offset
Truncated(v, mask, offset) == ShiftRight(BitAnd(ShiftLeft(v, offset), mask), offset)

NonZero(v) == IF v # 0 THEN 1 ELSE 0

(* C15 as the code has it: after a setter the other three fields and all   *)
(* remaining bits of the attribute word are unchanged.  After              *)
(* SetEntryPriority(v) or SetEntryTries(v) the field's getter returns v    *)
(* cut to four bits, which is v for v in 0..15.  After SetEntrySuccessful  *)
(* (v) or SetEntryLegacyBootable(v) the getter returns 1 for every v       *)
(* other than 0, so a wider value is not cut to the field's one bit.       *)
C15_AccessorsRoundTrip ==
    /\ SetterIs("SetEntryPriority") =>
          /\ GetEntryPriority(EntryAfter) = SetterArg % 16
          /\ AttrFramed("priority", 0, CGPT_ATTRIBUTE_PRIORITY_MASK)
    /\ SetterIs("SetEntryTries") =>
          /\ GetEntryTries(EntryAfter) = SetterArg % 16
          /\ AttrFramed("tries", 0, CGPT_ATTRIBUTE_TRIES_MASK)
    /\ SetterIs("SetEntrySuccessful") =>
          /\ GetEntrySuccessful(EntryAfter) = NonZero(SetterArg)
          /\ AttrFramed("successful", 0, CGPT_ATTRIBUTE_SUCCESSFUL_MASK)
    /\ SetterIs("SetEntryLegacyBootable") =>
          /\ GetEntryLegacyBootable(EntryAfter) = NonZero(SetterArg)
          /\ AttrFramed("legacy_bootable", CGPT_ATTRIBUTE_LEGACY_BOOTABLE, 0)

\* SetEntrySuccessful was given a value wider than one bit whose low bit is
\* clear, on an entry whose successful bit was clear and whose other bits
\* are not all clear: the bit is now set.
C15_Witness ==
    /\ SetterIs("SetEntrySuccessful")
    /\ SetterArg > 1
    /\ SetterArg % 2 = 0
    /\ GetEntrySuccessful(EntryBefore) = 0
    /\ EntryBefore.gpt_att # 0
    /\ EntryBefore.attrs_low # 0
    /\ GetEntrySuccessful(EntryAfter) = 1

(* C15 as claimed: after each setter the field's getter returns the value  *)
(* cut to the field's mask (the value itself when it is within the         *)
(* field's width), and the rest of the attribute word is unchanged.        *)
C15_AccessorsTruncate ==
    /\ SetterIs("SetEntryPriority") =>
          /\ GetEntryPriority(EntryAfter) =
                Truncated(SetterArg, CGPT_ATTRIBUTE_PRIORITY_MASK,
                          CGPT_ATTRIBUTE_PRIORITY_OFFSET)
          /\ AttrFramed("priority", 0, CGPT_ATTRIBUTE_PRIORITY_MASK)
    /\ SetterIs("SetEntryTries") =>
          /\ GetEntryTries(EntryAfter) =
                Truncated(SetterArg, CGPT_ATTRIBUTE_TRIES_MASK,
                          CGPT_ATTRIBUTE_TRIES_OFFSET)
          /\ AttrFramed("tries", 0, CGPT_ATTRIBUTE_TRIES_MASK)
    /\ SetterIs("SetEntrySuccessful") =>
          /\ GetEntrySuccessful(EntryAfter) =
                Truncated(SetterArg, CGPT_ATTRIBUTE_SUCCESSFUL_MASK,
                          CGPT_ATTRIBUTE_SUCCESSFUL_OFFSET)
          /\ AttrFramed("successful", 0, CGPT_ATTRIBUTE_SUCCESSFUL_MASK)
    /\ SetterIs("SetEntryLegacyBootable") =>
          /\ GetEntryLegacyBootable(EntryAfter) =
                NonZero(BitAnd(ShiftLeft(SetterArg, 2),
                               CGPT_ATTRIBUTE_LEGACY_BOOTABLE))
          /\ AttrFramed("legacy_bootable", CGPT_ATTRIBUTE_LEGACY_BOOTABLE, 0)

---------------------------------------------------------------------------
\* GptSanityCheck gets to lines 252-266 with both headers valid, no table
\* passing under the primary header and one passing under the secondary.
CrossRetryCase(g) ==
    /\ CheckParameters(g) = GPT_SUCCESS
    /\ OwnValid(g)
    /\ EntriesMask(g, g.primary_header) = MASK_NONE
    /\ EntriesMask(g, g.secondary_header) # MASK_NONE

(* C16: cross-retry.  Whenever both headers pass CheckHeader, neither      *)
(* entry table passes CheckEntries under the primary header and at least   *)
(* one passes under the secondary header, GptSanityCheck returns           *)
(* GPT_SUCCESS with valid_headers = SECONDARY and valid_entries the set of *)
(* tables that pass under the secondary header, also when both pass; in    *)
(* every other case with both headers valid, valid_entries is the set of   *)
(* tables that pass under the primary header.                              *)
C16_CrossRetry ==
    /\ (LastIs("sanity") /\ CrossRetryCase(pre)) =>
          /\ LastRet = GPT_SUCCESS
          /\ gpt.valid_headers = MASK_SECONDARY
          /\ gpt.valid_entries = EntriesMask(pre, pre.secondary_header)
    /\ (LastIs("sanity") /\ CheckParameters(pre) = GPT_SUCCESS
           /\ OwnValid(pre) /\ ~CrossRetryCase(pre)) =>
          gpt.valid_entries = EntriesMask(pre, pre.primary_header)

\* A GptSanityCheck that retried with the secondary header and found both
\* tables passing under it.
C16_Witness ==
    /\ LastIs("sanity")
    /\ CrossRetryCase(pre)
    /\ gpt.valid_entries = MASK_BOTH
    /\ gpt.valid_headers = MASK_SECONDARY

---------------------------------------------------------------------------
(* C17: each header's alternate_lba points at the other copy after a       *)
(* repair.  After a GptRepair that follows a GptSanityCheck returning      *)
(* GPT_SUCCESS, the primary header has alternate_lba = drive_sectors - 1   *)
(* and the secondary header has alternate_lba = 1.                         *)
C17_AlternatePointsAtOther ==
    RepairAfterGoodSanity =>
        /\ gpt.primary_header.alternate_lba = gpt.drive_sectors - 1
        /\ gpt.secondary_header.alternate_lba = 1

---------------------------------------------------------------------------
\* Header and entries buffer number k (1 primary, 2 secondary) of g.
HeaderOf(g, k) == IF k = 1 THEN g.primary_header ELSE g.secondary_header
EntriesOf(g, k) == IF k = 1 THEN g.primary_entries ELSE g.secondary_entries
\* The bit of copy k in a validity mask.
MaskOf(k) == IF k = 1 THEN MASK_PRIMARY ELSE MASK_SECONDARY
Flagged(mask, k) == BitAnd(mask, MaskOf(k)) # 0

(* C18: the validity masks GptSanityCheck produces are mutually            *)
(* consistent.  Whenever it returns GPT_SUCCESS both masks are non-empty,  *)
(* every header flagged in valid_headers passes CheckHeader for its role,  *)
(* and every entry table flagged in valid_entries passes CheckEntries      *)
(* against every header flagged in valid_headers; whenever it returns an   *)
(* error, valid_headers = NONE or valid_entries = NONE.                    *)
C18_MasksConsistent ==
    LastIs("sanity") =>
        IF LastRet = GPT_SUCCESS
        THEN /\ gpt.valid_headers # MASK_NONE
             /\ gpt.valid_entries # MASK_NONE
             /\ \A k \in {1, 2} :
                   Flagged(gpt.valid_headers, k) =>
                       CheckHeader(HeaderOf(gpt, k), k - 1,
                                   gpt.drive_sectors).ret = 0
             /\ \A k \in {1, 2}, t \in {1, 2} :
                   (Flagged(gpt.valid_headers, k)
                       /\ Flagged(gpt.valid_entries, t)) =>
                       CheckEntries(EntriesOf(gpt, t), HeaderOf(gpt, k))
                           = GPT_SUCCESS
        ELSE gpt.valid_headers = MASK_NONE \/ gpt.valid_entries = MASK_NONE

\* A GptSanityCheck of two headers that each pass CheckHeader but differ:
\* it flagged the primary header and the primary table only.
C18_Witness ==
    /\ LastIs("sanity")
    /\ LastRet = GPT_SUCCESS
    /\ OwnValid(pre)
    /\ gpt.valid_headers = MASK_PRIMARY
    /\ gpt.valid_entries = MASK_PRIMARY

---------------------------------------------------------------------------
\* The buffers of g that differ from those of p, as GPT_MODIFIED_* bits.
ChangedBuffers(p, g) ==
    (IF g.primary_header # p.primary_header THEN GPT_MODIFIED_HEADER1 ELSE 0)
    + (IF g.secondary_header # p.secondary_header
       THEN GPT_MODIFIED_HEADER2 ELSE 0)
    + (IF g.primary_entries # p.primary_entries
       THEN GPT_MODIFIED_ENTRIES1 ELSE 0)
    + (IF g.secondary_entries # p.secondary_entries
       THEN GPT_MODIFIED_ENTRIES2 ELSE 0)

(* C19: modified covers every change.  After any call to GptRepair or      *)
(* GptModified, each of the four buffers that differs from what it was at  *)
(* the start of the call has its bit (HEADER1, ENTRIES1, HEADER2,          *)
(* ENTRIES2) set in modified, including headers rewritten by the geometry  *)
(* adapter.                                                                *)
C19_ModifiedCoversChanges ==
    (LastIs("repair") \/ LastIs("modified")) =>
        BitAnd(gpt.modified, ChangedBuffers(pre, gpt)) = ChangedBuffers(pre, gpt)

\* A GptRepair called with nothing flagged in modified whose geometry
\* adapter rewrote the primary header: both headers changed and are flagged.
C19_Witness ==
    /\ LastIs("repair")
    /\ pre.modified = 0
    /\ Flagged(pre.valid_headers, 1)
    /\ pre.primary_header.last_usable_lba # CanonicalLastUsable(pre)
    /\ gpt.primary_header.last_usable_lba = CanonicalLastUsable(gpt)
    /\ BitAnd(ChangedBuffers(pre, gpt), GPT_MODIFIED_HEADER1) # 0
    /\ BitAnd(ChangedBuffers(pre, gpt), GPT_MODIFIED_HEADER2) # 0

=============================================================================
